---- MODULE Spec2Model ----
(***************************************************************************)
(* The workout API: five request handlers (workoutController.js) routed by *)
(* the router (routes), each making one call on the Workout collection of  *)
(* the document store and mapping its result to an HTTP response.          *)
(*                                                                         *)
(* A request is a process: its handler runs up to the awaited store call   *)
(* (or returns early); then the store executes the call atomically and the *)
(* handler, which reads nothing but the call's result, sends the response. *)
(* Requests interleave at the await.                                       *)
(***************************************************************************)
EXTENDS Integers, Sequences, FiniteSets, TLC

\* ------------------------------------------------------------------ bounds
\* Requests the server receives in one run.
MaxReqs == 2
\* ObjectIds the store holds or assigns in one run.
MaxOid == 2
\* Last tick of the millisecond clock that stamps createdAt.
MaxClock == 1

\* ------------------------------------------------------------------ data
Fields == {"title", "reps", "load"}

\* Two complete bodies: the example of the API's documentation, and another
\* that differs from it in every field.
Example == [title |-> <<"Push ups">>, reps |-> <<40>>, load |-> <<5>>]

Other == [title |-> <<"Squats">>, reps |-> <<10>>, load |-> <<0>>]

\* req.body: each field absent (<<>>) or present with a value (<<v>>).
EmptyBody == [title |-> <<>>, reps |-> <<>>, load |-> <<>>]

only(body, S) == [f \in Fields |-> IF f \in S THEN body[f] ELSE <<>>]

\* The bodies of POST requests: both complete bodies, and the example with
\* one field missing or all of them.
CreateBodies ==
    {Example, Other, EmptyBody} \cup {only(Example, Fields \ {f}) : f \in Fields}

\* The bodies of PATCH requests: none, one, two and all of the fields, each
\* field named by some body and omitted by another.
UpdateBodies ==
    {only(Other, S) : S \in {{}, {"title"}, {"reps", "load"}, Fields}}

has(body, f) == body[f] # <<>>

Oids == 1..MaxOid

\* req.params.id: the 24 hex digits of an ObjectId in lower or upper case, or a
\* string that is no ObjectId.
Malformed == [form |-> "malformed", oid |-> 0]

NoId == [form |-> "none", oid |-> 0]

ReqIds ==
    [form : {"hex"}, oid : Oids] \cup {[form |-> "HEX", oid |-> 1], Malformed}

\* mongoose.Types.ObjectId.isValid(id)
isValid(id) == id.form \in {"hex", "HEX"}

\* The ObjectId a valid id string is cast to in a query: both spellings
\* denote the same ObjectId.
castObjectId(id) == id.oid

\* The schema's timestamps: createdAt is the time the document is built.
timestamps(now) == now

\* A slip in the fields handed to create: reps and load change places.
DocSwapped(oid, body, t) ==
    [_id |-> oid, title |-> body.title[1], reps |-> body.load[1],
     load |-> body.reps[1], createdAt |-> timestamps(t)]

\* The Workout document built of {title, load, reps}: the three fields, the
\* _id, and the createdAt of the schema's timestamps.
Doc(oid, body, t) ==
    [_id |-> oid, title |-> body.title[1], reps |-> body.reps[1],
     load |-> body.load[1], createdAt |-> timestamps(t)]

\* ---------------------------------------------------------------- responses
NoSuchWorkout == "No such workout"
ValidationFailed == "Workout validation failed"
StoreError == "store call failed"

docJson(d) == [kind |-> "doc", docs |-> <<d>>, error |-> ""]
listJson(ds) == [kind |-> "list", docs |-> ds, error |-> ""]
errorJson(msg) == [kind |-> "error", docs |-> <<>>, error |-> msg]
NoContent == [kind |-> "empty", docs |-> <<>>, error |-> ""]

\* Statuses whose response is sent without a body, whatever json() was given.
BodilessStatus == {204, 304}

\* res.status(s).json(payload): the status, the payload handed to json(), and
\* the body that goes out.
send(s, payload) ==
    [status |-> s, json |-> payload,
     body |-> IF s \in BodilessStatus THEN NoContent ELSE payload]

\* ------------------------------------------------------------------ state
VARIABLES
    store,      \* the Workout collection: a set of documents, one per _id
    nextOid,    \* the next ObjectId the driver generates
    clock,      \* the clock that stamps createdAt
    reqs        \* the requests received, in order of arrival

vars == <<store, nextOid, clock, reqs>>

NoOp == [name |-> "none", oid |-> 0, doc |-> <<>>, update |-> EmptyBody]

\* A request at the moment its handler is called.
Request(h, id, body) ==
    [handler |-> h, id |-> id, body |-> body, pc |-> "called", op |-> NoOp,
     result |-> <<>>, err |-> "", resp |-> <<>>]

StoreIds == {d._id : d \in store}

\* The seeded collection the server may start on.
SeedDoc(o) ==
    [_id |-> o, title |-> "Push ups", reps |-> 40, load |-> 5, createdAt |-> 0]

InitStores == {{}, {SeedDoc(1)}}

Init ==
    /\ store \in InitStores
    /\ nextOid = Cardinality(store) + 1
    /\ clock = 0
    /\ reqs = <<>>

\* ------------------------------------------------------- the schema (model)
\* workoutSchema: title, reps and load are required.
validate(body) == \A f \in Fields : has(body, f)

\* ------------------------------------------------------------- store calls
\* Workout.find({}).sort({createdAt: -1}): every document, newest first; the
\* order among equal createdAt is the store's choice.
sortedByCreatedAtDesc(s) ==
    \A i, j \in 1..Len(s) : i < j => s[i].createdAt >= s[j].createdAt

\* The sort ascending: {createdAt: 1}.
findSortedAscending(S) ==
    {s \in [1..Cardinality(S) -> S] :
        /\ \A i, j \in 1..Cardinality(S) : i # j => s[i] # s[j]
        /\ \A i, j \in 1..Cardinality(S) : i < j => s[i].createdAt <= s[j].createdAt}

findSorted(S) ==
    {s \in [1..Cardinality(S) -> S] :
        /\ \A i, j \in 1..Cardinality(S) : i # j => s[i] # s[j]
        /\ sortedByCreatedAtDesc(s)}

\* Workout.findById(id), and the document a findOneAnd... call matches.
findById(S, oid) == {d \in S : d._id = oid}

\* The update {...req.body} applied as $set: the fields of the body replace
\* the document's, the others stay.
applyUpdate(d, body) ==
    [d EXCEPT !.title = IF has(body, "title") THEN body.title[1] ELSE @,
              !.reps = IF has(body, "reps") THEN body.reps[1] ELSE @,
              !.load = IF has(body, "load") THEN body.load[1] ELSE @]

asResult(S) == IF S = {} THEN <<>> ELSE <<CHOOSE d \in S : TRUE>>

\* What the store does with a call: the collection afterwards, and the result
\* the call resolves to (a document as <<d>>, null as <<>>, a list as such).
\* The delete lost: the document is found and stays.
findOneAndDeleteKeeps(S, oid) == S

findOneAndDelete(S, oid) == S \ findById(S, oid)

\* The update with {upsert: true}: an id that matches nothing gets a document.
findOneAndUpdateUpsert(S, oid, body) ==
    IF findById(S, oid) = {}
    THEN S \cup {[_id |-> oid, title |-> "Squats", reps |-> 10, load |-> 0,
                  createdAt |-> clock]}
    ELSE (S \ findById(S, oid)) \cup {applyUpdate(d, body) : d \in findById(S, oid)}

findOneAndUpdate(S, oid, body) ==
    (S \ findById(S, oid)) \cup {applyUpdate(d, body) : d \in findById(S, oid)}

\* Without {new: true}: the call resolves to the document as it was.
findOneAndUpdateResultOld(S, oid, body) == asResult(findById(S, oid))

\* {new: true}: the call resolves to the document as updated.
findOneAndUpdateResult(S, oid, body) ==
    asResult({applyUpdate(d, body) : d \in findById(S, oid)})

insert(S, doc) == S \cup {doc}

\* An id generator that hands out the least id not in the collection.
leastFreeObjectId ==
    CHOOSE o \in 1..nextOid :
        /\ o \notin StoreIds
        /\ \A p \in 1..(o - 1) : p \in StoreIds

\* The ObjectId a new document gets: never one handed out before.
newObjectId == nextOid

\* ------------------------------------------- what each handler answers
getWorkoutsResponse(workouts) == send(200, listJson(workouts))

\* getWorkout answering a missing record as deleteWorkout does.
getWorkoutResponse400(workout) ==
    IF workout = <<>>
    THEN send(400, errorJson(NoSuchWorkout))
    ELSE send(200, docJson(workout[1]))

getWorkoutResponse(workout) ==
    IF workout = <<>>
    THEN send(404, errorJson(NoSuchWorkout))
    ELSE send(200, docJson(workout[1]))

createWorkoutResponse(workout) == send(201, docJson(workout[1]))

\* The catch answering 500 with a message of its own.
createWorkoutCatchResponse500(message) ==
    send(500, errorJson("Internal Server Error"))

createWorkoutCatchResponse(message) == send(400, errorJson(message))

\* deleteWorkout answering 200, as the record in json() suggests.
deleteWorkoutResponse200(workout) ==
    IF workout = <<>>
    THEN send(400, errorJson(NoSuchWorkout))
    ELSE send(200, docJson(workout[1]))

deleteWorkoutResponse(workout) ==
    IF workout = <<>>
    THEN send(400, errorJson(NoSuchWorkout))
    ELSE send(204, docJson(workout[1]))

updateWorkoutResponse(workout) ==
    IF workout = <<>>
    THEN send(400, errorJson(NoSuchWorkout))
    ELSE send(200, docJson(workout[1]))

\* --------------------------------------------- handlers: up to the await
Receive(r) == reqs' = Append(reqs, r)

CanReceive == Len(reqs) < MaxReqs

awaiting(r, op) == [r EXCEPT !.pc = "await", !.op = op]

responded(r, resp) == [r EXCEPT !.pc = "done", !.resp = <<resp>>]

thrown(r, msg) == [r EXCEPT !.pc = "threw", !.err = msg]

getWorkoutsCall ==
    /\ CanReceive
    /\ Receive(awaiting(Request("getWorkouts", NoId, EmptyBody),
                        [NoOp EXCEPT !.name = "find"]))
    /\ UNCHANGED <<store, nextOid, clock>>

getWorkoutCall(id) ==
    /\ CanReceive
    /\ LET r == Request("getWorkout", id, EmptyBody) IN
       IF ~isValid(id)
       THEN Receive(responded(r, send(404, errorJson(NoSuchWorkout))))
       ELSE Receive(awaiting(r, [NoOp EXCEPT !.name = "findById",
                                             !.oid = castObjectId(id)]))
    /\ UNCHANGED <<store, nextOid, clock>>

\* Workout.create({title, load, reps}): the document is built and validated
\* (its _id and createdAt set) before the insert is sent.
createWorkoutCall(body, now) ==
    /\ CanReceive
    /\ LET r == Request("createWorkout", NoId, body) IN
       IF ~validate(body)
       THEN /\ Receive(responded(thrown(r, ValidationFailed),
                                  createWorkoutCatchResponse(ValidationFailed)))
            /\ UNCHANGED <<nextOid, clock>>
       ELSE /\ nextOid <= MaxOid
            /\ Receive(awaiting(r, [NoOp EXCEPT !.name = "create",
                                 !.oid = newObjectId,
                                 !.doc = <<Doc(newObjectId, body, now)>>]))
            /\ nextOid' = nextOid + 1
            /\ clock' = now
    /\ UNCHANGED store

deleteWorkoutCall(id) ==
    /\ CanReceive
    /\ LET r == Request("deleteWorkout", id, EmptyBody) IN
       IF ~isValid(id)
       THEN Receive(responded(r, send(400, errorJson(NoSuchWorkout))))
       ELSE Receive(awaiting(r, [NoOp EXCEPT !.name = "findOneAndDelete",
                                             !.oid = castObjectId(id)]))
    /\ UNCHANGED <<store, nextOid, clock>>

updateWorkoutCall(id, body) ==
    /\ CanReceive
    /\ LET r == Request("updateWorkout", id, body) IN
       IF ~isValid(id)
       THEN Receive(responded(r, send(400, errorJson(NoSuchWorkout))))
       ELSE Receive(awaiting(r, [NoOp EXCEPT !.name = "findOneAndUpdate",
                                             !.oid = castObjectId(id),
                                             !.update = body]))
    /\ UNCHANGED <<store, nextOid, clock>>

\* ------------------------------- handlers: the awaited call and the rest
Awaiting(i, h) ==
    /\ reqs[i].pc = "await"
    /\ reqs[i].handler = h

\* The awaited call resolves to `result` and the handler answers `resp`.
Resume(i, result, resp) ==
    reqs' = [reqs EXCEPT ![i] = [responded(@, resp) EXCEPT !.result = result]]

getWorkoutsAwait(i) ==
    /\ Awaiting(i, "getWorkouts")
    /\ \E workouts \in findSorted(store) :
          Resume(i, workouts, getWorkoutsResponse(workouts))
    /\ UNCHANGED <<store, nextOid, clock>>

getWorkoutAwait(i) ==
    /\ Awaiting(i, "getWorkout")
    /\ LET workout == asResult(findById(store, reqs[i].op.oid)) IN
          Resume(i, workout, getWorkoutResponse(workout))
    /\ UNCHANGED <<store, nextOid, clock>>

createWorkoutAwait(i) ==
    /\ Awaiting(i, "createWorkout")
    /\ store' = insert(store, reqs[i].op.doc[1])
    /\ Resume(i, reqs[i].op.doc, createWorkoutResponse(reqs[i].op.doc))
    /\ UNCHANGED <<nextOid, clock>>

deleteWorkoutAwait(i) ==
    /\ Awaiting(i, "deleteWorkout")
    /\ store' = findOneAndDelete(store, reqs[i].op.oid)
    /\ LET workout == asResult(findById(store, reqs[i].op.oid)) IN
          Resume(i, workout, deleteWorkoutResponse(workout))
    /\ UNCHANGED <<nextOid, clock>>

updateWorkoutAwait(i) ==
    /\ Awaiting(i, "updateWorkout")
    /\ store' = findOneAndUpdate(store, reqs[i].op.oid, reqs[i].op.update)
    /\ LET workout ==
              findOneAndUpdateResult(store, reqs[i].op.oid, reqs[i].op.update)
       IN Resume(i, workout, updateWorkoutResponse(workout))
    /\ UNCHANGED <<nextOid, clock>>

\* ------------------------------------------------------ a failing store
\* The store call rejects (the connection is lost, the server errors) and the
\* collection is as it was.  createWorkout awaits inside try/catch.
createWorkoutCatch(i) ==
    /\ Awaiting(i, "createWorkout")
    /\ reqs' = [reqs EXCEPT ![i] =
          responded(thrown(@, StoreError), createWorkoutCatchResponse(StoreError))]
    /\ UNCHANGED <<store, nextOid, clock>>

\* The other four handlers await outside any try/catch and return a rejected
\* promise.  The router hands the handler to the framework as is: a framework
\* that does not observe the promise (Express 4) sends nothing; one that does
\* (Express 5) answers 500.
FrameworkOutcomes == {"unanswered", "done"}

Rejected(i, outcome) ==
    /\ reqs[i].pc = "await"
    /\ reqs[i].handler # "createWorkout"
    /\ reqs' = [reqs EXCEPT ![i] =
          IF outcome = "done"
          THEN responded(thrown(@, StoreError), send(500, errorJson(StoreError)))
          ELSE [thrown(@, StoreError) EXCEPT !.pc = "unanswered"]]
    /\ UNCHANGED <<store, nextOid, clock>>

\* ------------------------------------------------------- specifications
Next ==
    \/ getWorkoutsCall
    \/ \E id \in ReqIds : getWorkoutCall(id)
    \/ \E body \in CreateBodies, now \in clock..MaxClock :
          createWorkoutCall(body, now)
    \/ \E id \in ReqIds : deleteWorkoutCall(id)
    \/ \E id \in ReqIds, body \in UpdateBodies : updateWorkoutCall(id, body)
    \/ \E i \in 1..Len(reqs) : getWorkoutsAwait(i)
    \/ \E i \in 1..Len(reqs) : getWorkoutAwait(i)
    \/ \E i \in 1..Len(reqs) : createWorkoutAwait(i)
    \/ \E i \in 1..Len(reqs) : deleteWorkoutAwait(i)
    \/ \E i \in 1..Len(reqs) : updateWorkoutAwait(i)

\* The store answers every call.
Spec == Init /\ [][Next]_vars

NextCreateFail ==
    \/ Next
    \/ \E i \in 1..Len(reqs) : createWorkoutCatch(i)

\* The store may fail an insert.
SpecCreateFail == Init /\ [][NextCreateFail]_vars

NextFail ==
    \/ NextCreateFail
    \/ \E i \in 1..Len(reqs), outcome \in FrameworkOutcomes : Rejected(i, outcome)

\* The store may fail any call.
SpecFail == Init /\ [][NextFail]_vars

\* ======================================================================
\* Properties
\* ======================================================================
Reqs == 1..Len(reqs)

IsDone(i) == reqs[i].pc = "done"

Status(i) == reqs[i].resp[1].status

Sent(i) == reqs[i].resp[1].body

Complete(body) == body.title # <<>> /\ body.reps # <<>> /\ body.load # <<>>

\* Request i gets its response in this step.
Completes(i) ==
    /\ i \in 1..Len(reqs')
    /\ reqs'[i].pc = "done"
    /\ (i \in Reqs => reqs[i].pc # "done")

Status1(i) == reqs'[i].resp[1].status

Sent1(i) == reqs'[i].resp[1].body

\* The documents of id o in the collection before and after the step.
Stored(o) == {d \in store : d._id = o}

Stored1(o) == {d \in store' : d._id = o}

\* What C1 asks of one step.
C1_Step ==
    \A i \in 1..Len(reqs') :
        (/\ reqs'[i].handler = "createWorkout"
         /\ Complete(reqs'[i].body)
         /\ Completes(i))
        => /\ Status1(i) = 201
           /\ Sent1(i).kind = "doc"
           /\ LET d == Sent1(i).docs[1] IN
                /\ d.title = reqs'[i].body.title[1]
                /\ d.reps = reqs'[i].body.reps[1]
                /\ d.load = reqs'[i].body.load[1]
                /\ d._id \notin {e._id : e \in store}
                /\ d \notin store
                /\ store' = store \cup {d}
                /\ Cardinality(store') = Cardinality(store) + 1

\* ----------------------------------------------------------------- C1
\* C1: a create request whose body holds title, reps and load is answered
\* 201 with a record of exactly these values, whose identifier is none of
\* those in the store, and the store gains exactly that record.
C1_CreateReturnsNewRecord == [][C1_Step]_vars

\* A create answered 201 on a collection that already held a record.
C1_Witness ==
    \E i \in Reqs :
        /\ reqs[i].handler = "createWorkout"
        /\ IsDone(i)
        /\ Status(i) = 201
        /\ Sent(i).docs[1] \in store
        /\ Cardinality(store) = 2

\* ----------------------------------------------------------------- C2
\* Persisting the record of create request i has failed: validation refused
\* it, or the store rejected the insert.
Failed1(i) == reqs'[i].handler = "createWorkout" /\ reqs'[i].err # ""

\* What C2 asks of one step.
C2_Step ==
    \A i \in 1..Len(reqs') :
        /\ (reqs'[i].handler = "createWorkout" /\ ~Complete(reqs'[i].body))
              => /\ Failed1(i)
                 /\ reqs'[i].op.name = "none"
        /\ Failed1(i)
              => /\ reqs'[i].pc = "done"
                 /\ Status1(i) = 400
                 /\ Status1(i) # 201
                 /\ Sent1(i) = [kind |-> "error", docs |-> <<>>,
                                error |-> reqs'[i].err]
                 /\ Completes(i) => store' = store
                 /\ reqs'[i].op.name = "create"
                       => reqs'[i].op.doc[1] \notin store'

\* C2: a create whose persistence fails, a body missing title, reps or load
\* included, is answered 400 with the error's message and never 201, and the
\* collection stays as it was, then and later.
C2_FailedCreateAnswers400 == [][C2_Step]_vars

\* One create refused by validation and one whose insert the store rejected.
C2_Witness ==
    \E i, j \in Reqs :
        /\ reqs[i].handler = "createWorkout" /\ reqs[j].handler = "createWorkout"
        /\ reqs[i].err = ValidationFailed /\ IsDone(i) /\ Status(i) = 400
        /\ reqs[j].err = StoreError /\ IsDone(j) /\ Status(j) = 400
        /\ store # {}

\* What C3 asks of one step.
C3_Step ==
    \A i \in 1..Len(reqs') :
        (reqs'[i].handler = "getWorkout" /\ (i \notin Reqs \/ reqs'[i] # reqs[i]))
        => /\ store' = store
           /\ reqs'[i].id.form = "malformed"
                 => Completes(i) /\ i \notin Reqs /\ reqs'[i].op.name = "none"
           /\ Completes(i)
                 => LET id == reqs'[i].id
                        missing == id.form = "malformed" \/ Stored(id.oid) = {}
                    IN /\ missing <=> (Status1(i) = 404 /\ Sent1(i).kind = "error")
                       /\ ~missing <=> Status1(i) = 200
                       /\ ~missing => /\ Sent1(i).kind = "doc"
                                      /\ Sent1(i).docs[1] \in Stored(id.oid)

\* ----------------------------------------------------------------- C3
\* C3: getWorkout answers 404 with an error payload exactly when the id is
\* malformed or names no stored record, and 200 with the stored record
\* otherwise; a malformed id is answered without a store call; the collection
\* is left as it was.
C3_GetOneAnswers == [][C3_Step]_vars

\* The three answers of getWorkout: a stored record found under the other
\* spelling of its id, and a 404 for a well-formed id that names nothing.
C3_Witness ==
    \E i, j \in Reqs :
        /\ reqs[i].handler = "getWorkout" /\ reqs[i].id.form = "HEX"
        /\ IsDone(i) /\ Status(i) = 200
        /\ reqs[j].handler = "getWorkout" /\ reqs[j].id.form = "hex"
        /\ IsDone(j) /\ Status(j) = 404

\* What C4 asks of one step.
C4_Step ==
    \A i \in 1..Len(reqs') :
        (/\ reqs'[i].handler \in {"deleteWorkout", "updateWorkout"}
         /\ Completes(i)
         /\ (reqs'[i].id.form = "malformed" \/ Stored(reqs'[i].id.oid) = {}))
        => /\ Status1(i) = 400
           /\ store' = store

\* ----------------------------------------------------------------- C4
\* C4: deleteWorkout and updateWorkout answer 400 for an id that is malformed
\* or names no stored record, and leave the collection as it was: nothing is
\* deleted, changed or created.
C4_MissingIdAnswers400 == [][C4_Step]_vars

\* An update of a well-formed id that names nothing, answered 400, and a
\* delete of a malformed one.
C4_Witness ==
    \E i, j \in Reqs :
        /\ reqs[i].handler = "updateWorkout" /\ reqs[i].id.form = "hex"
        /\ reqs[i].body = Other
        /\ IsDone(i) /\ Status(i) = 400
        /\ reqs[j].handler = "deleteWorkout" /\ reqs[j].id.form = "malformed"
        /\ IsDone(j) /\ Status(j) = 400

\* ----------------------------------------------------------------- C5
\* A delete request answered in this step whose id names a stored record.
DeletesStored(i) ==
    /\ reqs'[i].handler = "deleteWorkout"
    /\ Completes(i)
    /\ reqs'[i].id.form # "malformed"
    /\ Stored(reqs'[i].id.oid) # {}

\* What deleteWorkout does to the collection: exactly the record of the id
\* goes, every other record stays as it is.
RemovesExactly(i) ==
    /\ Cardinality(Stored(reqs'[i].id.oid)) = 1
    /\ store' = store \ Stored(reqs'[i].id.oid)

\* What C5 as stated asks of one step.
C5_Step_AsStated ==
    \A i \in 1..Len(reqs') :
        DeletesStored(i)
        => /\ RemovesExactly(i)
           /\ Status1(i) = 204
           /\ Sent1(i).kind = "doc"
           /\ Sent1(i).docs[1] \in Stored(reqs'[i].id.oid)

\* C5, as stated: deleting a stored record removes exactly that record and
\* answers 204 with the deleted record in the response body.
C5_DeleteSendsRecord == [][C5_Step_AsStated]_vars

\* What C5 as amended asks of one step.
C5_Step ==
    \A i \in 1..Len(reqs') :
        DeletesStored(i)
        => /\ RemovesExactly(i)
           /\ Status1(i) = 204
           /\ reqs'[i].resp[1].json.kind = "doc"
           /\ reqs'[i].resp[1].json.docs[1] \in Stored(reqs'[i].id.oid)
           /\ Sent1(i).kind = "empty"
           /\ Sent1(i).docs = <<>>

\* C5, amended: deleting a stored record removes exactly that record and
\* answers 204; the handler hands the deleted record to json(), and the
\* response, being a 204, goes out with no body.
C5_DeleteAnswers204NoBody == [][C5_Step]_vars

\* A stored record deleted with one other record left in the collection.
C5_Witness ==
    \E i \in Reqs :
        /\ reqs[i].handler = "deleteWorkout"
        /\ IsDone(i) /\ Status(i) = 204
        /\ reqs[i].result # <<>>
        /\ reqs[i].result[1] \notin store
        /\ Cardinality(store) = 1

\* ----------------------------------------------------------------- C6
\* The value field f of document d has after an update of body `body`.
Merged(d, body, f) == IF body[f] # <<>> THEN body[f][1] ELSE d[f]

\* What C6 asks of one step.
C6_Step ==
    \A i \in 1..Len(reqs') :
        (/\ reqs'[i].handler = "updateWorkout"
         /\ Completes(i)
         /\ reqs'[i].id.form # "malformed"
         /\ Stored(reqs'[i].id.oid) # {})
        => LET o == reqs'[i].id.oid
               body == reqs'[i].body
           IN /\ Cardinality(Stored(o)) = 1
              /\ Cardinality(Stored1(o)) = 1
              /\ store' \ Stored1(o) = store \ Stored(o)
              /\ \A d \in Stored(o), e \in Stored1(o) :
                    /\ \A f \in Fields : e[f] = Merged(d, body, f)
                    /\ e._id = d._id
                    /\ e.createdAt = d.createdAt
              /\ Status1(i) = 200
              /\ Sent1(i).kind = "doc"
              /\ Sent1(i).docs[1] \in Stored1(o)

\* C6: an update of a stored record gives the fields named in the body the
\* body's values and keeps the others, keeps the id and every other record,
\* and answers 200 with the record as it is after the update.
C6_UpdateMergesFields == [][C6_Step]_vars

\* An update of the title alone that changed the title and kept reps and
\* load, answered with the record as updated.
C6_Witness ==
    \E i \in Reqs :
        /\ reqs[i].handler = "updateWorkout"
        /\ reqs[i].body = only(Other, {"title"})
        /\ IsDone(i) /\ Status(i) = 200
        /\ Sent(i).docs[1].title = "Squats"
        /\ Sent(i).docs[1].reps = 40
        /\ Sent(i).docs[1].load = 5
        /\ Sent(i).docs[1] \in store

\* What C7 asks of one step.
C7_Step ==
    /\ \A i \in 1..Len(reqs') :
          (reqs'[i].handler = "getWorkouts" /\ (i \notin Reqs \/ reqs'[i] # reqs[i]))
          => /\ store' = store
             /\ Completes(i)
                   => LET s == Sent1(i).docs IN
                         /\ Status1(i) = 200
                         /\ Sent1(i).kind = "list"
                         /\ Len(s) = Cardinality(store)
                         /\ {s[k] : k \in 1..Len(s)} = store
                         /\ \A k \in 1..(Len(s) - 1) :
                               s[k].createdAt >= s[k + 1].createdAt
    /\ \A d \in store, e \in store' : e._id = d._id => e.createdAt = d.createdAt

\* ----------------------------------------------------------------- C7
\* C7: getWorkouts answers 200 with an array holding every stored record
\* exactly once, later createdAt first, and leaves the collection as it was;
\* no step changes the createdAt of a stored record, so an update does not
\* move a record in that order.
C7_ListNewestFirst == [][C7_Step]_vars

\* A list of two records of different creation times, the later one first.
C7_Witness ==
    \E i \in Reqs :
        /\ reqs[i].handler = "getWorkouts"
        /\ IsDone(i) /\ Status(i) = 200
        /\ Len(Sent(i).docs) = 2
        /\ Sent(i).docs[1].createdAt > Sent(i).docs[2].createdAt

\* ----------------------------------------------------------------- C8
\* The ids deleteWorkout has answered 204 for.
Deleted204 ==
    {reqs[i].id.oid : i \in {k \in Reqs : /\ reqs[k].handler = "deleteWorkout"
                                          /\ IsDone(k)
                                          /\ Status(k) = 204}}

\* What C8 asks of one step.
C8_Step ==
    \A o \in Deleted204 :
        /\ Stored(o) = {}
        /\ Stored1(o) = {}
        /\ \A i \in 1..Len(reqs') :
              Completes(i)
              => /\ (reqs'[i].handler = "getWorkout" /\ reqs'[i].id.oid = o)
                       => Status1(i) = 404
                 /\ (/\ reqs'[i].handler \in {"deleteWorkout", "updateWorkout"}
                     /\ reqs'[i].id.oid = o)
                       => Status1(i) = 400
                 /\ (reqs'[i].handler = "createWorkout" /\ Status1(i) = 201)
                       => Sent1(i).docs[1]._id # o

\* C8: once deleteWorkout has answered 204 for an id, every request answered
\* from then on gets 404 from getWorkout and 400 from deleteWorkout and
\* updateWorkout on that id, the id is in the collection no more, and no
\* create is answered with a record of that id.
C8_DeletedStaysDeleted == [][C8_Step]_vars

\* A delete answered 204, then a request on the same id answered "no such
\* workout".
C8_Witness ==
    \E i, j \in Reqs :
        /\ i < j
        /\ reqs[i].handler = "deleteWorkout" /\ IsDone(i) /\ Status(i) = 204
        /\ reqs[j].handler \in {"getWorkout", "updateWorkout"}
        /\ reqs[j].id.oid = reqs[i].id.oid
        /\ IsDone(j) /\ Status(j) \in {400, 404}

\* ----------------------------------------------------------------- C9
\* C9: a request whose store call failed has got exactly one response, an
\* error response: none is left unanswered.
C9_FailedCallIsAnswered ==
    \A i \in Reqs :
        reqs[i].err = StoreError
        => /\ Len(reqs[i].resp) = 1
           /\ Status(i) >= 400

\* ---------------------------------------------------------------- C10
\* The delete requests on id o answered 204, before and after the step.
Won(o) ==
    {k \in Reqs : /\ reqs[k].handler = "deleteWorkout" /\ reqs[k].id.oid = o
                  /\ IsDone(k) /\ Status(k) = 204}

Won1(o) ==
    {k \in 1..Len(reqs') :
        /\ reqs'[k].handler = "deleteWorkout" /\ reqs'[k].id.oid = o
        /\ reqs'[k].pc = "done" /\ Status1(k) = 204}

\* What C10 asks of one step.
C10_Step ==
    /\ \A i \in 1..Len(reqs') :
          (/\ reqs'[i].handler = "deleteWorkout"
           /\ Completes(i)
           /\ reqs'[i].id.form # "malformed")
          => LET o == reqs'[i].id.oid IN
                /\ Stored(o) # {} => Status1(i) = 204 /\ Won(o) = {}
                /\ Stored(o) = {} => Status1(i) = 400
                /\ Won(o) # {} => Status1(i) = 400
                /\ Stored1(o) = {}
    /\ \A o \in Oids :
          /\ Cardinality(Won1(o)) <= 1
          /\ Won1(o) # {} => Stored1(o) = {}

\* C10: of the delete requests on one stored id, the one whose call the store
\* runs first is answered 204 and every other one 400, so exactly one gets
\* 204; and once a delete of a stored id has been answered, the record is in
\* the collection no more, whether an update of the same id ran before it,
\* runs after it or is still awaited.
C10_OneDeleteWins == [][C10_Step]_vars

\* Two deletes of one stored id in flight together: the one that arrived
\* second was run first and answered 204, the other 400.
C10_WitnessDeletes ==
    \E i, j \in Reqs :
        /\ i < j
        /\ reqs[i].handler = "deleteWorkout" /\ reqs[j].handler = "deleteWorkout"
        /\ reqs[i].id.oid = reqs[j].id.oid
        /\ IsDone(i) /\ Status(i) = 400
        /\ IsDone(j) /\ Status(j) = 204

\* A delete and an update of one stored id in flight together, the delete
\* run first: the update finds nothing and the record is gone.
C10_WitnessUpdateAfter ==
    \E i, j \in Reqs :
        /\ i < j
        /\ reqs[i].handler = "updateWorkout" /\ reqs[j].handler = "deleteWorkout"
        /\ reqs[i].id.oid = reqs[j].id.oid
        /\ IsDone(i) /\ Status(i) = 400
        /\ IsDone(j) /\ Status(j) = 204
        /\ Stored(reqs[i].id.oid) = {}

====
